---- MODULE Spec2Model ----
(***************************************************************************)
(* Bench-press 100 kg challenge application (Streamlit).                   *)
(*                                                                         *)
(* The repository holds two applications:                                  *)
(*   FINAL_s.py       - weekly plan requested from a chat-completion       *)
(*                      service, set-by-set records, daily reviews and a   *)
(*                      4-week cycle ending in a MAX test;                  *)
(*   コード更新版_s.py - weekly plan computed by a fixed formula,           *)
(*                      check boxes per menu item.                          *)
(* A session runs one of the two; the variable app says which.             *)
(*                                                                         *)
(* Streamlit runs the whole script on every user interaction.  One action  *)
(* below is one interaction: the handler of the widget that was used, up   *)
(* to and including the script run that redraws the page (st.rerun() or    *)
(* the rest of the same run), because that redraw itself writes session    *)
(* state (check_all_records_saved_for_week, FINAL_s.py:390-421).           *)
(*                                                                         *)
(* Weights are whole kilograms (the record widgets are integer            *)
(* number_inputs, FINAL_s.py:749-756, and are stored through int()).       *)
(* A plan returned by the service is taken to be well formed: the days of  *)
(* one week are distinct and the names of one day are distinct (Streamlit  *)
(* rejects duplicate widget keys otherwise).                               *)
(***************************************************************************)
EXTENDS Integers, Sequences, FiniteSets, TLC

\* ------------------------------------------------------------------ bounds
\* largest goal weight that can be entered when a cycle is restarted
MaxGoal == 105
\* largest current_week_index the formula-driven application is followed to
MaxWeekIndex == 1
\* largest number of training_logs entries a session is followed to
MaxLogs == 2
\* largest protein_today the protein page is followed to (grams)
MaxProtein == 20

\* ------------------------------------------------------- program constants
TARGET_1RM == 100
WEEKDAYS_JP == <<"Mon", "Tue", "Wed", "Thu", "Fri", "Sat", "Sun">>
\* the week of a cycle in which the MAX test is taken
MAX_TEST_WEEK == 4

\* the weekdays selected in the weekday multiselects
Days == {WEEKDAYS_JP[1], WEEKDAYS_JP[2]}
\* the session counts entered in the next-week form (number_input 1..7)
FreqInputs == 1..2

\* initial_info before the first profile submission (None)
NoInfo == [set |-> FALSE]
\* profile before the first profile submission ({})
NoProfile == [set |-> FALSE]

\* ------------------------------------------------------------ input domains
\* ExerciseItem as far as the handlers read it: name and is_max.  The
\* planned weight / reps / sets are only the default values of the widgets.
Item(n, m) == [name |-> n, is_max |-> m]
DayPlan(d, menu) == [day |-> d, menu |-> menu]

\* replies of the plan request for week week_num that parse into a weekly
\* plan.  The service is asked for one week at a time; the replies tried
\* are one-item weeks for weeks 1-3 (week 3 with an is_max mark, which the
\* handlers ignore outside week 4) and, for the MAX-test week, a week with
\* no, one or two is_max items, over one or two days.
PlanReplies(week_num) ==
  IF week_num < 3 THEN { <<DayPlan("Mon", <<Item("BP", FALSE)>>)>> }
  ELSE IF week_num = 3 THEN { <<DayPlan("Mon", <<Item("BP", TRUE)>>)>> }
  ELSE
  { <<DayPlan("Mon", <<Item("BP", FALSE)>>)>>,
    <<DayPlan("Mon", <<Item("BP", TRUE)>>)>>,
    <<DayPlan("Mon", <<Item("BP", TRUE), Item("Row", FALSE)>>)>>,
    <<DayPlan("Mon", <<Item("BP", TRUE)>>),
      DayPlan("Tue", <<Item("BP", TRUE)>>)>> }

\* what generate_ai_week_plan can get back: an exception ("error"), a reply
\* without a usable weekly_plan (<<>>), or a plan
AiPlanOutcomes(week_num) ==
  {[kind |-> "error", weekly_plan |-> <<>>], [kind |-> "reply", weekly_plan |-> <<>>]}
  \cup {[kind |-> "reply", weekly_plan |-> p] : p \in PlanReplies(week_num)}

\* what the review request can give back: an exception, or the content of
\* the reply after strip(), which is empty for an empty or blank reply (tried
\* in the first week)
AiReviewOutcomes(week_num) ==
  {[kind |-> "error", text |-> ""], [kind |-> "reply", text |-> "well done"]}
  \cup (IF week_num = 1 THEN {[kind |-> "reply", text |-> ""]} ELSE {})

\* values typed into the record widgets of a week: one set of values in
\* the weeks before the MAX test, two weights around the goal in its week
RecordInputs(week_number) ==
  IF week_number < MAX_TEST_WEEK
  THEN { [weight |-> 95,  reps |-> 5, sets |-> 3, note |-> ""] }
  ELSE { [weight |-> 95,  reps |-> 5, sets |-> 3, note |-> ""],
         [weight |-> 100, reps |-> 3, sets |-> 2, note |-> "pr"] }

\* values typed into the profile form: current_1rm (kg) ...
ProfileInputs == {70}
\* ... which is a float widget: the value typed into the form of
\* コード更新版_s.py, in hundredths of a kg
DetProfileInputs == {7025}
\* ... and height (cm) and weight (kg)
BodyInputs == {[height |-> 170, weight |-> 70]}

\* date.today() of the runs of a session, as a day number
TodayInputs == {2}
\* the day and the weight entered in the MAX test form (0: nothing entered)
TestDateInputs == {1}
TestWeightInputs == {0, 80}
\* grams typed into the protein page
ProteinInputs == {20}
\* the inputs estimate_weeks_to_target is tabulated on: current_1rm in
\* thousandths of a kg, and the sessions per week
EstimateUnit == 1000
EstimateCurrents ==
  {20000, 40000, 64000, 69999, 70000, 70001, 93999, 94000, 94001, 99700,
   99999, 100000, 100001, 120000}
EstimateSessions == 1..7

\* the non-empty selections tried: the first n of these weekdays
NonEmptyDaySets == {{WEEKDAYS_JP[i] : i \in 1..n} : n \in 1..Cardinality(Days)}

\* values of the session-count widgets of the formula-driven application
SessionInputs == {1, 2}

\* what the ideal-pace curve is drawn from: whether profile["start_date"] and
\* profile["target_date"] parse, their day numbers, the day and the
\* current_1rm (tenths of a kg) of the earliest log, profile["target_weeks"]
CurveInputs ==
  [dates_ok : BOOLEAN, start_date : {10}, target_date : 8..17,
   log_date : {9, 10}, target_weeks : {0, 1, 2},
   initial_1rm : {200, 705, 999, 1000, 1200}]

NoCurveInput ==
  [dates_ok |-> TRUE, start_date |-> 0, target_date |-> 0, log_date |-> 0,
   target_weeks |-> 0, initial_1rm |-> 0]

NoCurve == [dates |-> <<>>, values |-> <<>>]

\* the arguments generate_week_plan is tabulated on: current_1rm in
\* hundredths of a kg, sessions_per_week, week_index
PlanInputs ==
  [current_1rm : {2000, 3125, 7000, 7025, 7165, 9990, 10000, 12345},
   sessions_per_week : 1..7, week_index : 0..4]

NoPlanInput == [current_1rm |-> 0, sessions_per_week |-> 0, week_index |-> 0]

VARIABLES
  app,                          \* which of the two applications runs
  client,                       \* get_openai_client() returns a client
  \* --- both applications
  profile,                      \* current_1rm in hundredths of a kg
  protein_goal,
  protein_today,
  training_logs,
  \* --- estimate_weeks_to_target tabulated on its own
  est_current,
  est_sessions,
  est_weeks,                    \* -1: not called yet
  \* --- the ideal-pace curve of page_progress_and_roadmap on its own
  curve_in,
  curve_out,                    \* <<>>: not drawn yet
  \* --- generate_week_plan tabulated on its own
  gp_in,
  gp_out,                       \* <<>>: not called yet
  \* --- コード更新版_s.py
  week_plan,
  workout_done,
  current_week_index,
  show_week_summary,
  celebrated_this_week,
  \* --- FINAL_s.py
  initial_info,
  weekly_plan,
  records,
  current_week,
  training_started,
  max_test_result,
  goal_achieved_pending,
  max_registered_not_achieved,
  day_review_done,
  last_review,
  next_week_config_pending,
  notice                        \* the st.error / st.success of the last handler

sharedVars == <<profile, protein_goal, protein_today, training_logs>>

estVars == <<est_current, est_sessions, est_weeks>>

curveVars == <<curve_in, curve_out>>

planVars == <<gp_in, gp_out>>

\* the variables of the functions tabulated on their own
pureVars == <<estVars, curveVars, planVars>>

detVars == <<week_plan, workout_done, current_week_index,
             show_week_summary, celebrated_this_week>>

finalVars == <<initial_info, weekly_plan, records, current_week,
               training_started, max_test_result, goal_achieved_pending,
               max_registered_not_achieved, day_review_done, last_review,
               next_week_config_pending, notice>>

vars == <<app, client, profile, protein_goal, protein_today, training_logs,
          est_current, est_sessions, est_weeks, curve_in, curve_out, gp_in, gp_out,
          week_plan, workout_done, current_week_index,
          show_week_summary, celebrated_this_week, initial_info, weekly_plan, records, current_week,
          training_started, max_test_result, goal_achieved_pending,
          max_registered_not_achieved, day_review_done, last_review,
          next_week_config_pending, notice>>

\* ------------------------------------------------------------ plan helpers
\* the (day, item) pairs of a week plan in the order the loops visit them
\* (for day_plan in wk_plan: for item in day_plan["menu"])
RECURSIVE PlanItems(_)
PlanItems(wk_plan) ==
  IF wk_plan = <<>> THEN <<>>
  ELSE [i \in 1..Len(Head(wk_plan).menu) |->
            [day |-> Head(wk_plan).day, item |-> Head(wk_plan).menu[i]]]
       \o PlanItems(Tail(wk_plan))

\* records[week][day][name] as one map from <<week, day, name>>
RecordKey(week, day, name) == <<week, day, name>>

HasRecord(recs, week, day, name) == RecordKey(week, day, name) \in DOMAIN recs

\* day_review_done.get(week, {}).get(day, False)
is_day_reviewed(done, week, day) == <<week, day>> \in done

\* the day check returning True after the first item instead of after the loop
check_first_record_saved_for_day(week_num, day, wk_plan, recs) ==
  /\ \E i \in 1..Len(wk_plan) : wk_plan[i].day = day
  /\ LET first == CHOOSE i \in 1..Len(wk_plan) :
                    /\ wk_plan[i].day = day
                    /\ \A j \in 1..(i - 1) : wk_plan[j].day # day
         menu == wk_plan[first].menu
     IN  menu # <<>> => HasRecord(recs, week_num, day, menu[1].name)

check_all_records_saved_for_day(week_num, day, wk_plan, recs) ==
  /\ \E i \in 1..Len(wk_plan) : wk_plan[i].day = day
  /\ LET first == CHOOSE i \in 1..Len(wk_plan) :
                    /\ wk_plan[i].day = day
                    /\ \A j \in 1..(i - 1) : wk_plan[j].day # day
         menu == wk_plan[first].menu
     IN  \A k \in 1..Len(menu) : HasRecord(recs, week_num, day, menu[k].name)

\* the completeness half of check_all_records_saved_for_week
week_fully_recorded(week_num, wk_plan, recs) ==
  LET its == PlanItems(wk_plan)
  IN  \A i \in 1..Len(its) : HasRecord(recs, week_num, its[i].day, its[i].item.name)

\* positions of the items the loop treats as the MAX measurement
MaxPositions(week_num, wk_plan) ==
  LET its == PlanItems(wk_plan)
  IN  {i \in 1..Len(its) : week_num = MAX_TEST_WEEK /\ its[i].item.is_max}

\* max_weight taken as the greatest weight recorded for an is_max item
GreatestMaxWeight(week_num, wk_plan, recs) ==
  LET its == PlanItems(wk_plan)
      pos == MaxPositions(week_num, wk_plan)
      weights == {recs[RecordKey(week_num, its[i].day, its[i].item.name)].weight :
                    i \in pos}
  IN  CHOOSE w \in weights : \A v \in weights : v <= w

\* max_weight taken from the first is_max item instead of the last
FirstMaxWeight(week_num, wk_plan, recs) ==
  LET its == PlanItems(wk_plan)
      pos == MaxPositions(week_num, wk_plan)
      first == CHOOSE i \in pos : \A j \in pos : i <= j
  IN  recs[RecordKey(week_num, its[first].day, its[first].item.name)].weight

\* max_weight after the loop: the record of the last is_max item visited
LastMaxWeight(week_num, wk_plan, recs) ==
  LET its == PlanItems(wk_plan)
      pos == MaxPositions(week_num, wk_plan)
      last == CHOOSE i \in pos : \A j \in pos : j <= i
  IN  recs[RecordKey(week_num, its[last].day, its[last].item.name)].weight

\* the goal comparison with > for >=
goal_exceeded(result, goal_bp) == result > goal_bp

\* goal comparison of check_all_records_saved_for_week
goal_reached(result, goal_bp) == result >= goal_bp

\* check_all_records_saved_for_week: the session values it leaves behind,
\* given the values it finds
check_all_records_saved_for_week(week_num, wk_plan, recs, goal_bp, cur) ==
  IF /\ week_fully_recorded(week_num, wk_plan, recs)
     /\ MaxPositions(week_num, wk_plan) # {}
  THEN LET w == LastMaxWeight(week_num, wk_plan, recs)
       IN  [cur EXCEPT !.max_test_result = w,
                       !.goal_achieved_pending = goal_reached(w, goal_bp),
                       !.max_registered_not_achieved = ~goal_reached(w, goal_bp)]
  ELSE cur

\* the review condition written with any() for all()
any_day_reviewed(week_num, wk_plan, done) ==
  \E i \in 1..Len(wk_plan) : is_day_reviewed(done, week_num, wk_plan[i].day)

all_days_reviewed(week_num, wk_plan, done) ==
  \A i \in 1..Len(wk_plan) : is_day_reviewed(done, week_num, wk_plan[i].day)

\* ------------------------------------------------------------ the redraw
\* What one run of page_training_week leaves in the session when no widget
\* of the page was used: cur holds training_started, max_test_result and
\* the two goal flags as the run finds them.
RenderTrainingWeek(cl, info, pending, week, plans, recs, cur) ==
  IF ~info.set \/ ~cl \/ pending \/ ~cur.training_started
  THEN cur
  ELSE IF week - 1 >= Len(plans)
  THEN [cur EXCEPT !.training_started = FALSE]
  ELSE check_all_records_saved_for_week(week, plans[week], recs, info.goal_bp, cur)

Cur == [training_started |-> training_started,
        max_test_result |-> max_test_result,
        goal_achieved_pending |-> goal_achieved_pending,
        max_registered_not_achieved |-> max_registered_not_achieved]

\* assign the four values a redraw can write
SetCur(c) ==
  /\ training_started' = c.training_started
  /\ max_test_result' = c.max_test_result
  /\ goal_achieved_pending' = c.goal_achieved_pending
  /\ max_registered_not_achieved' = c.max_registered_not_achieved

\* the page shows the record widgets of the current week
TrainingPageOpen ==
  /\ app = "FINAL"
  /\ initial_info.set
  /\ client
  /\ ~next_week_config_pending
  /\ training_started
  /\ current_week - 1 < Len(weekly_plan)

CurrentPlan == weekly_plan[current_week]

\* ------------------------------------------------- FINAL_s.py: collaborators
\* generate_ai_week_plan: None without a client or when the call raises,
\* otherwise response_json.get("weekly_plan", []).  None and [] are both
\* falsy for the callers and are both <<>> here.
generate_ai_week_plan(cl, outcome) ==
  IF ~cl \/ outcome.kind = "error" THEN <<>> ELSE outcome.weekly_plan

\* generate_ai_daily_review: the canned strings of lines 327 and 368, or the
\* reply
generate_ai_daily_review(cl, outcome) ==
  IF ~cl THEN "review unavailable"
  ELSE IF outcome.kind = "error" THEN "review failed"
  ELSE outcome.text

\* a caller that takes whatever the generator returned as a plan
plan_accepted_always(plan) == TRUE

\* "if week1_plan:" / "if new_plan:" of the two callers: None and [] are
\* refused
plan_accepted(plan) == plan # <<>>

\* ------------------------------------------------- common logic
\* estimate_weeks_to_target for current_1rm = num / den kg, in exact
\* arithmetic.  weekly_gain is kept in hundredths of a kg per week, so
\* need_kg / weekly_gain = a / b with a = 100 * (TARGET_1RM * den - num) and
\* b = weekly_gain * den; int(a / b + 0.999) is the quotient plus one when
\* the remainder is at least b / 1000.
estimate_weeks_to_target(num, den, sessions_per_week) ==
  IF num >= TARGET_1RM * den THEN 0
  ELSE LET freq_bonus == (sessions_per_week - 3) * 15
           weekly_gain == IF 60 + freq_bonus > 30 THEN 60 + freq_bonus ELSE 30
           a == 100 * (TARGET_1RM * den - num)
           b == weekly_gain * den
           weeks == (a \div b) + (IF 1000 * (a % b) >= b THEN 1 ELSE 0)
       IN  IF weeks > 1 THEN weeks ELSE 1

\* the profile dict written by page_initial_settings of either application,
\* for a current_1rm of num / den kg (den divides 100)
new_profile(body, num, den, sessions_per_week, today) ==
  LET weeks == estimate_weeks_to_target(num, den, sessions_per_week)
  IN  [set |-> TRUE, height |-> body.height, weight |-> body.weight,
       current_1rm |-> num * (100 \div den),
       sessions_per_week |-> sessions_per_week,
       target_weeks |-> weeks,
       target_date |-> today + 7 * weeks,
       start_date |-> today]

\* a snapshot dated the day after the date it is given
log_training_snapshot_next_day(logs, prof, note, log_date) ==
  IF ~prof.set THEN logs
  ELSE Append(logs, [date |-> log_date + 1, current_1rm |-> prof.current_1rm,
                     note |-> note])

\* a snapshot that replaces the log instead of extending it
log_training_snapshot_reset(logs, prof, note, log_date) ==
  IF ~prof.set THEN logs
  ELSE <<[date |-> log_date, current_1rm |-> prof.current_1rm, note |-> note]>>

\* log_training_snapshot of FINAL_s.py (lines 126-141): the log after the call
log_training_snapshot(logs, prof, note, log_date) ==
  IF ~prof.set THEN logs
  ELSE Append(logs, [date |-> log_date, current_1rm |-> prof.current_1rm,
                     note |-> note])

\* log_training_snapshot of コード更新版_s.py (lines 194-213)
log_training_snapshot_wk(logs, prof, week_index, note, log_date) ==
  IF ~prof.set THEN logs
  ELSE Append(logs, [date |-> log_date, week_index |-> week_index,
                     current_1rm |-> prof.current_1rm, note |-> note])

\* ------------------------------------------------- FINAL_s.py: handlers
\* session state after init_state, estimate_weeks_to_target left aside
SessionInit ==
  /\ app \in {"FINAL", "UPDATED"}
  \* コード更新版_s.py reads the client only to word its feedback messages,
  \* which are shown and not stored
  /\ client \in (IF app = "FINAL" THEN BOOLEAN ELSE {FALSE})
  /\ profile = NoProfile
  /\ protein_goal = 0
  /\ protein_today = 0
  /\ training_logs = <<>>
  /\ week_plan = <<>>
  /\ workout_done = <<>>
  /\ current_week_index = 0
  /\ show_week_summary = FALSE
  /\ celebrated_this_week = FALSE
  /\ initial_info = NoInfo
  /\ weekly_plan = <<>>
  /\ records = <<>>
  /\ current_week = 1
  /\ training_started = FALSE
  /\ max_test_result = 0
  /\ goal_achieved_pending = FALSE
  /\ max_registered_not_achieved = FALSE
  /\ day_review_done = {}
  /\ last_review = <<>>
  /\ next_week_config_pending = FALSE
  /\ notice = ""

Init ==
  /\ SessionInit
  /\ est_current = 0
  /\ est_sessions = 0
  /\ est_weeks = -1
  /\ curve_in = NoCurveInput
  /\ curve_out = NoCurve
  /\ gp_in = NoPlanInput
  /\ gp_out = <<>>

\* the API key appears or disappears between two runs; the next run redraws
ReconfigureClient ==
  /\ app = "FINAL"
  /\ client' = ~client
  /\ UNCHANGED <<sharedVars, pureVars, detVars>>
  /\ SetCur(RenderTrainingWeek(client', initial_info, next_week_config_pending,
                               current_week, weekly_plan, records, Cur))
  /\ notice' = ""
  /\ UNCHANGED <<app, initial_info, weekly_plan, records, current_week,
                 day_review_done, last_review, next_week_config_pending>>

\* page_initial_settings, form submitted with at least one weekday (an empty
\* selection returns at line 525 with nothing written)
SubmitProfile(body, current_1rm, weekdays, today, outcome) ==
  /\ app = "FINAL"
  /\ Len(training_logs) < MaxLogs
  /\ profile' = new_profile(body, current_1rm, 1, Cardinality(weekdays), today)
  /\ protein_goal' = body.weight * 2
  /\ protein_today' = 0
  /\ training_logs' = log_training_snapshot(training_logs, profile', "initial", today)
  /\ initial_info' = [set |-> TRUE, height |-> body.height,
                      body_weight |-> body.weight, current_bp |-> current_1rm,
                      goal_bp |-> TARGET_1RM,
                      freq |-> Cardinality(weekdays), weekdays |-> weekdays]
  /\ LET week1_plan == generate_ai_week_plan(client, outcome)
     IN  IF plan_accepted(week1_plan)
         THEN /\ weekly_plan' = <<week1_plan>>
              /\ records' = <<>>
              /\ current_week' = 1
              /\ day_review_done' = {}
              /\ last_review' = <<>>
              /\ next_week_config_pending' = FALSE
              /\ notice' = "plan created"
              /\ SetCur(RenderTrainingWeek(client, initial_info', FALSE, 1,
                          weekly_plan', records',
                          [training_started |-> FALSE,
                           max_test_result |-> current_1rm,
                           goal_achieved_pending |-> FALSE,
                           max_registered_not_achieved |-> FALSE]))
         ELSE /\ notice' = "plan failed"
              /\ SetCur(RenderTrainingWeek(client, initial_info',
                          next_week_config_pending, current_week,
                          weekly_plan, records,
                          [Cur EXCEPT !.max_test_result = current_1rm]))
              /\ UNCHANGED <<weekly_plan, records, current_week, day_review_done,
                             last_review, next_week_config_pending>>
  /\ UNCHANGED <<pureVars, detVars>>
  /\ UNCHANGED <<app, client>>

\* "トレーニング開始" (lines 684-689), then the rerun
StartTraining ==
  /\ app = "FINAL"
  /\ initial_info.set
  /\ client
  /\ ~next_week_config_pending
  /\ ~training_started
  /\ SetCur(RenderTrainingWeek(client, initial_info, FALSE, current_week,
                               weekly_plan, records,
                               [Cur EXCEPT !.training_started = TRUE]))
  /\ notice' = ""
  /\ UNCHANGED <<sharedVars, pureVars, detVars>>
  /\ UNCHANGED <<app, client, initial_info, weekly_plan, records, current_week,
                 day_review_done, last_review, next_week_config_pending>>

\* record widgets that stay enabled after the review
never_disabled(done, week, day) == FALSE

\* is_disabled of the record widgets of a day (line 725)
is_disabled(done, week, day) == is_day_reviewed(done, week, day)

\* reps and sets forced to 1 on every is_max item, whatever the week
stored_record_any_week(week_number, item, inp) ==
  [weight |-> inp.weight,
   reps |-> IF item.is_max THEN 1 ELSE inp.reps,
   sets |-> IF item.is_max THEN 1 ELSE inp.sets,
   note |-> inp.note,
   is_max |-> item.is_max]

\* the dict written at lines 809-822
stored_record(week_number, item, inp) ==
  [weight |-> inp.weight,
   reps |-> IF week_number = MAX_TEST_WEEK /\ item.is_max THEN 1 ELSE inp.reps,
   sets |-> IF week_number = MAX_TEST_WEEK /\ item.is_max THEN 1 ELSE inp.sets,
   note |-> inp.note,
   is_max |-> item.is_max]

\* the save that starts the day's dict afresh on every save
save_record_reset_day(recs, week_number, day, item, inp) ==
  LET key == RecordKey(week_number, day, item.name)
      kept == {x \in DOMAIN recs : x[1] # week_number \/ x[2] # day}
  IN  [k \in kept \cup {key} |->
         IF k = key THEN stored_record(week_number, item, inp) ELSE recs[k]]

\* the save keyed by week_idx (0-based) instead of week_number
save_record_by_week_idx(recs, week_number, day, item, inp) ==
  LET key == RecordKey(week_number - 1, day, item.name)
  IN  [k \in DOMAIN recs \cup {key} |->
         IF k = key THEN stored_record(week_number, item, inp) ELSE recs[k]]

\* records after lines 804-822
save_record(recs, week_number, day, item, inp) ==
  LET key == RecordKey(week_number, day, item.name)
  IN  [k \in DOMAIN recs \cup {key} |->
         IF k = key THEN stored_record(week_number, item, inp) ELSE recs[k]]

\* "保存" of item k of day plan i (lines 799-825), then the rerun
SaveRecord(i, k, inp) ==
  /\ TrainingPageOpen
  /\ i \in 1..Len(CurrentPlan)
  /\ k \in 1..Len(CurrentPlan[i].menu)
  /\ ~is_disabled(day_review_done, current_week, CurrentPlan[i].day)
  /\ records' = save_record(records, current_week, CurrentPlan[i].day,
                            CurrentPlan[i].menu[k], inp)
  /\ SetCur(RenderTrainingWeek(client, initial_info, FALSE, current_week,
                               weekly_plan, records', Cur))
  /\ notice' = ""
  /\ UNCHANGED <<sharedVars, pureVars, detVars>>
  /\ UNCHANGED <<app, client, initial_info, weekly_plan, current_week,
                 day_review_done, last_review, next_week_config_pending>>

\* the finish-day button drawn without looking at the review flag
can_finish_day_again(fully_saved, reviewed) == fully_saved

\* the condition under which the finish-day button is drawn (line 828)
can_finish_day(fully_saved, reviewed) == fully_saved /\ ~reviewed

\* "トレーニング終了！レビューを見る" of day plan i (lines 827-840), then the
\* rerun
FinishDay(i, outcome) ==
  /\ TrainingPageOpen
  /\ i \in 1..Len(CurrentPlan)
  /\ LET day == CurrentPlan[i].day
         key == <<current_week, day>>
     IN  /\ can_finish_day(
                check_all_records_saved_for_day(current_week, day, CurrentPlan, records),
                is_day_reviewed(day_review_done, current_week, day))
         /\ last_review' = [x \in DOMAIN last_review \cup {key} |->
                              IF x = key
                              THEN generate_ai_daily_review(client, outcome)
                              ELSE last_review[x]]
         /\ day_review_done' = day_review_done \cup {key}
  /\ SetCur(RenderTrainingWeek(client, initial_info, FALSE, current_week,
                               weekly_plan, records, Cur))
  /\ notice' = ""
  /\ UNCHANGED <<sharedVars, pureVars, detVars>>
  /\ UNCHANGED <<app, client, initial_info, weekly_plan, records, current_week,
                 next_week_config_pending>>

\* the week-complete condition of line 865
week_complete(week_num, wk_plan, recs, done) ==
  /\ week_fully_recorded(week_num, wk_plan, recs)
  /\ all_days_reviewed(week_num, wk_plan, done)

\* the next-week button drawn after any completed week
next_week_offered_any_week(week_number) == TRUE

\* the branch that draws the next-week button: not "if week_number == 4"
\* (line 868) but "elif week_number < 4" (line 896)
next_week_offered(week_number) ==
  /\ week_number # MAX_TEST_WEEK
  /\ week_number < MAX_TEST_WEEK

\* "次週のトレーニング設定とAIメニュー生成へ" (lines 896-899)
OpenNextWeekConfig ==
  /\ TrainingPageOpen
  /\ week_complete(current_week, CurrentPlan, records, day_review_done)
  /\ next_week_offered(current_week)
  /\ next_week_config_pending' = TRUE
  /\ notice' = ""
  /\ UNCHANGED <<sharedVars, pureVars, detVars>>
  /\ UNCHANGED <<app, client, initial_info, weekly_plan, records, current_week,
                 training_started, max_test_result, goal_achieved_pending,
                 max_registered_not_achieved, day_review_done, last_review>>

\* the goals the new-goal widget accepts (min_value=max_result, line 875-881)
NewGoals == {g \in {max_test_result, max_test_result + 5} : g <= MaxGoal}

\* "新目標でAIサイクル再スタート" (lines 871-886)
RestartWithNewGoal(new_goal) ==
  /\ TrainingPageOpen
  /\ week_complete(current_week, CurrentPlan, records, day_review_done)
  /\ current_week = MAX_TEST_WEEK
  /\ goal_achieved_pending
  /\ initial_info' = [initial_info EXCEPT !.goal_bp = new_goal]
  /\ current_week' = 0
  /\ next_week_config_pending' = TRUE
  /\ notice' = ""
  /\ UNCHANGED <<sharedVars, pureVars, detVars>>
  /\ UNCHANGED <<app, client, weekly_plan, records, training_started,
                 max_test_result, goal_achieved_pending,
                 max_registered_not_achieved, day_review_done, last_review>>

\* "目標据え置きでAIサイクル再スタート" (lines 887-894)
RestartWithSameGoal ==
  /\ TrainingPageOpen
  /\ week_complete(current_week, CurrentPlan, records, day_review_done)
  /\ current_week = MAX_TEST_WEEK
  /\ ~goal_achieved_pending
  /\ max_registered_not_achieved
  /\ current_week' = 0
  /\ next_week_config_pending' = TRUE
  /\ notice' = ""
  /\ UNCHANGED <<sharedVars, pureVars, detVars>>
  /\ UNCHANGED <<app, client, initial_info, weekly_plan, records,
                 training_started, max_test_result, goal_achieved_pending,
                 max_registered_not_achieved, day_review_done, last_review>>

\* records kept whether or not a new cycle starts
records_kept_on_restart(is_cycle_restart, recs) == recs

\* records emptied by every accepted plan
records_emptied_always(is_cycle_restart, recs) == <<>>

\* records after an accepted plan (lines 664-668): emptied when a new cycle
\* starts, untouched otherwise
records_after_generation(is_cycle_restart, recs) ==
  IF is_cycle_restart THEN <<>> ELSE recs

\* a plan list that grows across a cycle restart
plans_appended_always(is_cycle_restart, plans, new_plan) == Append(plans, new_plan)

\* weekly_plan after an accepted plan (lines 664-668): the single new plan
\* when a new cycle starts, the list extended by the plan otherwise
plans_after_generation(is_cycle_restart, plans, new_plan) ==
  IF is_cycle_restart THEN <<new_plan>> ELSE Append(plans, new_plan)

\* the check rejecting only a selection longer than the session count
frequency_exceeded(weekdays_next, freq_next) == Cardinality(weekdays_next) > freq_next

\* the check of line 643
frequency_mismatch(weekdays_next, freq_next) == Cardinality(weekdays_next) # freq_next

\* "次週メニューを生成" (lines 613-681)
SubmitNextWeekConfig(freq_next, weekdays_next, outcome) ==
  /\ app = "FINAL"
  /\ initial_info.set
  /\ client
  /\ next_week_config_pending
  /\ LET is_cycle_restart == current_week = 0
         next_week_num == IF is_cycle_restart THEN 1 ELSE current_week + 1
     IN  IF frequency_mismatch(weekdays_next, freq_next)
         THEN /\ notice' = "frequency mismatch"
              /\ UNCHANGED <<initial_info, weekly_plan, records, current_week,
                             training_started, max_test_result,
                             goal_achieved_pending, max_registered_not_achieved,
                             day_review_done, last_review,
                             next_week_config_pending>>
         ELSE /\ initial_info' = [initial_info EXCEPT !.freq = freq_next,
                                                      !.weekdays = weekdays_next]
              /\ LET new_plan == generate_ai_week_plan(client, outcome)
                 IN  IF plan_accepted(new_plan)
                     THEN /\ current_week' = next_week_num
                          /\ weekly_plan' = plans_after_generation(
                                              is_cycle_restart, weekly_plan, new_plan)
                          /\ records' = records_after_generation(is_cycle_restart,
                                                                 records)
                          /\ day_review_done' = {}
                          /\ last_review' = <<>>
                          /\ next_week_config_pending' = FALSE
                          /\ training_started' = FALSE
                          /\ goal_achieved_pending' = FALSE
                          /\ max_registered_not_achieved' = FALSE
                          /\ notice' = "plan created"
                          /\ UNCHANGED max_test_result
                     ELSE /\ notice' = "plan failed"
                          /\ UNCHANGED <<weekly_plan, records, current_week,
                                         training_started, max_test_result,
                                         goal_achieved_pending,
                                         max_registered_not_achieved,
                                         day_review_done, last_review,
                                         next_week_config_pending>>
  /\ UNCHANGED <<sharedVars, pureVars, detVars>>
  /\ UNCHANGED <<app, client>>

\* a registration that also re-estimates the weeks to the target
profile_after_max_test_reestimated(prof, test_1rm) ==
  [prof EXCEPT !.current_1rm = test_1rm * 100,
               !.target_weeks = estimate_weeks_to_target(test_1rm, 1,
                                                         prof.sessions_per_week)]

\* profile["current_1rm"] = float(test_1rm) (line 1134; line 810 of
\* コード更新版_s.py)
profile_after_max_test(prof, test_1rm) ==
  [prof EXCEPT !.current_1rm = test_1rm * 100]

\* "MAXテスト結果を登録" of page_progress_and_roadmap (lines 1120-1137), then
\* the rerun.  The page is drawn only when a profile exists (line 983).
RegisterMaxTest(test_date, test_1rm) ==
  /\ app = "FINAL"
  /\ profile.set
  /\ Len(training_logs) < MaxLogs
  /\ IF test_1rm <= 0
     THEN UNCHANGED <<profile, training_logs>>
     ELSE /\ profile' = profile_after_max_test(profile, test_1rm)
          /\ training_logs' = log_training_snapshot(training_logs, profile',
                                                    "max test", test_date)
  /\ SetCur(RenderTrainingWeek(client, initial_info, next_week_config_pending,
                               current_week, weekly_plan, records, Cur))
  /\ notice' = ""
  /\ UNCHANGED <<protein_goal, protein_today, pureVars, detVars>>
  /\ UNCHANGED <<app, client, initial_info, weekly_plan, records, current_week,
                 day_review_done, last_review, next_week_config_pending>>

\* ------------------------------------------- protein page (both applications)
\* "この量を追加" and "写真からタンパク質量を推定" of page_protein: grams is the
\* typed amount or the amount estimated from the photo (added when > 0).
\* The page is drawn only when a profile exists; protein_goal is then
\* already weight * 2 > 0, so the page does not write it.
AddProtein(grams) ==
  /\ profile.set
  /\ protein_today + grams <= MaxProtein
  /\ protein_today' = protein_today + grams
  /\ UNCHANGED <<app, client, profile, protein_goal, training_logs>>
  /\ UNCHANGED <<pureVars, detVars, finalVars>>

\* "今日の記録をリセット（テスト用）"
ResetProtein ==
  /\ profile.set
  /\ protein_today' = 0
  /\ UNCHANGED <<app, client, profile, protein_goal, training_logs>>
  /\ UNCHANGED <<pureVars, detVars, finalVars>>

\* ------------------------------------------- コード更新版_s.py: plan formula
\* a rounding that drops the fraction
RoundDown(num, den) == num \div den

\* Python's round(): the nearest integer to num / den, ties to the even one
\* (exact arithmetic; num >= 0, den > 0)
RoundHalfEven(num, den) ==
  LET q == num \div den
      r == num % den
  IN  IF 2 * r < den THEN q
      ELSE IF 2 * r > den THEN q + 1
      ELSE IF q % 2 = 0 THEN q ELSE q + 1

RECURSIVE GCD(_, _)
GCD(a, b) == IF b = 0 THEN a ELSE GCD(b, a % b)

\* the fraction num / den in lowest terms, as <<num, den>>
Fraction(num, den) == <<num \div GCD(num, den), den \div GCD(num, den)>>

\* the ten items of items_for_session, in order: id suffix and the percentage
\* of base_1rm its detail text quotes (0: no weight in the text)
SessionCatalogue ==
  << [slot |-> "bench_main", pct |-> 80], [slot |-> "bench_vol", pct |-> 70],
     [slot |-> "bench_tech", pct |-> 60], [slot |-> "incline", pct |-> 0],
     [slot |-> "row", pct |-> 60],        [slot |-> "ohp", pct |-> 50],
     [slot |-> "triceps", pct |-> 0],     [slot |-> "pushup", pct |-> 0],
     [slot |-> "core", pct |-> 0],        [slot |-> "legs", pct |-> 0] >>

\* the week progression in percent: 1.0 + week_index * 0.02
ProgressionPct(week_index) == 100 + 2 * week_index

\* generate_week_plan; current_1rm is the fraction num / den of a kg
generate_week_plan(num, den, sessions_per_week, week_index) ==
  [n \in 1..(sessions_per_week * Len(SessionCatalogue)) |->
     LET session == ((n - 1) \div Len(SessionCatalogue)) + 1
         c == SessionCatalogue[((n - 1) % Len(SessionCatalogue)) + 1]
     IN  [id |-> <<week_index, session, c.slot>>,
          session_label |-> <<week_index + 1, session>>,
          weight |-> IF c.pct = 0 THEN 0
                     ELSE LET base_1rm == Fraction(num * ProgressionPct(week_index),
                                                   den * 100)
                              part == Fraction(c.pct, 100)
                          IN  RoundHalfEven(base_1rm[1] * part[1],
                                            base_1rm[2] * part[2])]]

PlanIds(plan) == {plan[n].id : n \in 1..Len(plan)}

\* done_count of page_training_week
done_count(plan, done) ==
  Cardinality({n \in 1..Len(plan) : plan[n].id \in DOMAIN done /\ done[plan[n].id]})

\* success_rate >= 1.0, with success_rate = done_count / total (0 if total = 0)
all_done(plan, done) == Len(plan) > 0 /\ done_count(plan, done) = Len(plan)

\* celebrated_this_week after the summary block of one run (lines 476-483)
summary_shown(show, plan, done, celebrated) ==
  IF show /\ all_done(plan, done) THEN TRUE ELSE celebrated

\* new_1rm_for_profile = current_1rm * (1 + success_rate * 0.02) as the
\* fraction <<num, den>> of a kg, current_1rm given in hundredths of a kg
new_1rm_for_profile(current_1rm, plan, done) ==
  LET rate == Fraction(Len(plan) * 50 + done_count(plan, done), Len(plan) * 50)
      cur == Fraction(current_1rm, 100)
  IN  Fraction(cur[1] * rate[1], cur[2] * rate[2])

\* a profile value that drops the fraction of a tenth of a kg
rounded_1rm_down(new_1rm) == 10 * ((new_1rm[1] * 10) \div new_1rm[2])

\* round(new_1rm_for_profile, 1) in hundredths of a kg
rounded_1rm(new_1rm) == 10 * RoundHalfEven(new_1rm[1] * 10, new_1rm[2])

\* ------------------------------------------- コード更新版_s.py: handlers
\* page_initial_settings, form submitted; the same run then draws the check
\* boxes.  A box keeps its key when the week index and the item id are the
\* same as in the previous run; whether it then keeps its tick or takes the
\* value workout_done was reset to depends on how the Streamlit build
\* identifies a keyed widget, so both outcomes are taken (keep).
DetSubmitProfile(body, current_1rm, sessions_per_week, today, keep) ==
  /\ app = "UPDATED"
  /\ Len(training_logs) < MaxLogs
  /\ profile' = new_profile(body, current_1rm, 100, sessions_per_week, today)
  /\ protein_goal' = body.weight * 2
  /\ protein_today' = 0
  /\ training_logs' = log_training_snapshot_wk(training_logs, profile', 0,
                                               "initial", today)
  /\ current_week_index' = 0
  /\ week_plan' = generate_week_plan(current_1rm, 100, sessions_per_week, 0)
  /\ workout_done' = [id \in PlanIds(week_plan') |->
                        keep /\ id \in DOMAIN workout_done /\ workout_done[id]]
  /\ show_week_summary' = FALSE
  /\ celebrated_this_week' = FALSE
  /\ UNCHANGED <<app, client>>
  /\ UNCHANGED <<pureVars, finalVars>>

\* one check box of the week's menu ticked or unticked (lines 415-428), then
\* the rest of the run.  The boxes are ticked from the top of the menu down
\* and unticked from the bottom up, which reaches every done_count.
DetToggle(n) ==
  /\ app = "UPDATED"
  /\ profile.set
  /\ n \in 1..Len(week_plan)
  /\ \/ n = done_count(week_plan, workout_done) + 1
     \/ n = done_count(week_plan, workout_done)
  /\ workout_done' = [workout_done EXCEPT ![week_plan[n].id] = ~@]
  /\ celebrated_this_week' =
       summary_shown(show_week_summary, week_plan, workout_done', celebrated_this_week)
  /\ UNCHANGED <<app, client, week_plan, current_week_index, show_week_summary>>
  /\ UNCHANGED <<sharedVars, pureVars, finalVars>>

\* "今週の結果を振り返る" (lines 473-483)
DetReviewWeek ==
  /\ app = "UPDATED"
  /\ profile.set
  /\ week_plan # <<>>
  /\ show_week_summary' = TRUE
  /\ celebrated_this_week' =
       summary_shown(TRUE, week_plan, workout_done, celebrated_this_week)
  /\ UNCHANGED <<app, client, week_plan, workout_done, current_week_index>>
  /\ UNCHANGED <<sharedVars, pureVars, finalVars>>

\* "来週のメニューを作成" (lines 506-534), then the rerun, which draws the
\* fresh check boxes of the new week
DetCreateNextWeek(next_sessions, today) ==
  /\ app = "UPDATED"
  /\ profile.set
  /\ week_plan # <<>>
  /\ show_week_summary
  /\ current_week_index < MaxWeekIndex
  /\ Len(training_logs) < MaxLogs
  /\ LET new_1rm == new_1rm_for_profile(profile.current_1rm, week_plan, workout_done)
     IN  /\ profile' = [profile EXCEPT
                          !.current_1rm = rounded_1rm(new_1rm),
                          !.sessions_per_week = next_sessions]
         /\ current_week_index' = current_week_index + 1
         /\ week_plan' = generate_week_plan(new_1rm[1], new_1rm[2], next_sessions,
                                            current_week_index')
  /\ workout_done' = [id \in PlanIds(week_plan') |-> FALSE]
  /\ show_week_summary' = FALSE
  /\ celebrated_this_week' = FALSE
  /\ training_logs' = log_training_snapshot_wk(training_logs, profile',
                          current_week_index', "normal week", today)
  /\ UNCHANGED <<app, client, protein_goal, protein_today>>
  /\ UNCHANGED <<pureVars, finalVars>>

\* "MAXテスト結果を登録" (lines 797-813), then the rerun
DetRegisterMaxTest(test_date, test_1rm) ==
  /\ app = "UPDATED"
  /\ profile.set
  /\ Len(training_logs) < MaxLogs
  /\ IF test_1rm <= 0
     THEN UNCHANGED <<profile, training_logs>>
     ELSE /\ profile' = profile_after_max_test(profile, test_1rm)
          /\ training_logs' = log_training_snapshot_wk(training_logs, profile',
                                  current_week_index, "max test", test_date)
  /\ celebrated_this_week' =
       summary_shown(show_week_summary, week_plan, workout_done, celebrated_this_week)
  /\ UNCHANGED <<app, client, protein_goal, protein_today, week_plan,
                 workout_done, current_week_index, show_week_summary>>
  /\ UNCHANGED <<pureVars, finalVars>>

\* ------------------------------------------- estimate_weeks_to_target alone
\* the function applied once to a current_1rm of est_current / EstimateUnit kg
EstimateInit ==
  /\ SessionInit
  /\ est_current \in EstimateCurrents
  /\ est_sessions \in EstimateSessions
  /\ est_weeks = -1
  /\ curve_in = NoCurveInput
  /\ curve_out = NoCurve
  /\ gp_in = NoPlanInput
  /\ gp_out = <<>>

Estimate ==
  /\ est_weeks = -1
  /\ est_weeks' = estimate_weeks_to_target(est_current, EstimateUnit, est_sessions)
  /\ UNCHANGED <<app, client, sharedVars, est_current, est_sessions, detVars, finalVars>>
  /\ UNCHANGED <<curveVars, planVars>>

EstimateSpec == EstimateInit /\ [][Estimate]_vars

\* ------------------------------------------- the ideal-pace curve alone
\* start_date and target_date after the try / except and the forced day
\* (FINAL_s.py lines 1034-1043), as <<start_date, target_date>>
curve_span(c) ==
  LET start_date == IF c.dates_ok THEN c.start_date ELSE c.log_date
      target_date == IF c.dates_ok THEN c.target_date
                     ELSE start_date + 7 * c.target_weeks
  IN  <<start_date, IF target_date <= start_date THEN start_date + 1
                    ELSE target_date>>

\* num_days (lines 1047-1049)
curve_num_days(span) == IF span[2] - span[1] < 1 THEN 1 ELSE span[2] - span[1]

\* ideal_dates: start_date + i days for i in range(num_days + 1)
ideal_dates(start_date, num_days) ==
  [n \in 1..(num_days + 1) |-> start_date + (n - 1)]

\* a curve that stops one step short of the target
ideal_values_short(initial_1rm, num_days) ==
  [n \in 1..(num_days + 1) |->
     Fraction(initial_1rm * (num_days + 1) + (TARGET_1RM * 10 - initial_1rm) * (n - 1),
              num_days + 1)]

\* ideal_values: initial_1rm + (TARGET_1RM - initial_1rm) * (i / num_days) for
\* i in range(num_days + 1), each the fraction <<num, den>> of a tenth of a kg
ideal_values(initial_1rm, num_days) ==
  [n \in 1..(num_days + 1) |->
     Fraction(initial_1rm * num_days + (TARGET_1RM * 10 - initial_1rm) * (n - 1),
              num_days)]

CurveInit ==
  /\ SessionInit
  /\ est_current = 0
  /\ est_sessions = 0
  /\ est_weeks = -1
  /\ curve_in \in CurveInputs
  /\ curve_out = NoCurve
  /\ gp_in = NoPlanInput
  /\ gp_out = <<>>

\* the curve block of page_progress_and_roadmap, run once
DrawCurve ==
  /\ curve_out = NoCurve
  /\ LET span == curve_span(curve_in)
         num_days == curve_num_days(span)
     IN  curve_out' = [dates |-> ideal_dates(span[1], num_days),
                       values |-> ideal_values(curve_in.initial_1rm, num_days)]
  /\ UNCHANGED <<app, client, sharedVars, estVars, curve_in, planVars, detVars,
                 finalVars>>

CurveSpec == CurveInit /\ [][DrawCurve]_vars

\* ------------------------------------------- generate_week_plan alone
PlanInit ==
  /\ SessionInit
  /\ est_current = 0
  /\ est_sessions = 0
  /\ est_weeks = -1
  /\ curve_in = NoCurveInput
  /\ curve_out = NoCurve
  /\ gp_in \in PlanInputs
  /\ gp_out = <<>>

\* one call of generate_week_plan; the function reads and writes nothing
\* but its arguments and its result
GeneratePlan ==
  /\ gp_out = <<>>
  /\ gp_out' = generate_week_plan(gp_in.current_1rm, 100, gp_in.sessions_per_week,
                                  gp_in.week_index)
  /\ UNCHANGED <<app, client, sharedVars, estVars, curveVars, gp_in, detVars,
                 finalVars>>

PlanSpec == PlanInit /\ [][GeneratePlan]_vars

Next ==
  \/ ReconfigureClient
  \/ \E b \in BodyInputs, c \in ProfileInputs, wd \in NonEmptyDaySets,
        t \in TodayInputs, o \in AiPlanOutcomes(1) :
        SubmitProfile(b, c, wd, t, o)
  \/ StartTraining
  \/ \E i \in 1..2, k \in 1..2, inp \in RecordInputs(current_week) : SaveRecord(i, k, inp)
  \/ \E i \in 1..2, o \in AiReviewOutcomes(current_week) : FinishDay(i, o)
  \/ OpenNextWeekConfig
  \/ \E g \in NewGoals : RestartWithNewGoal(g)
  \/ RestartWithSameGoal
  \/ \E f \in FreqInputs, wd \in NonEmptyDaySets,
        o \in AiPlanOutcomes(IF current_week = 0 THEN 1 ELSE current_week + 1) :
        SubmitNextWeekConfig(f, wd, o)
  \/ \E d \in TestDateInputs, w \in TestWeightInputs : RegisterMaxTest(d, w)
  \/ \E g \in ProteinInputs : AddProtein(g)
  \/ ResetProtein
  \/ \E b \in BodyInputs, c \in DetProfileInputs, n \in SessionInputs,
        t \in TodayInputs, keep \in BOOLEAN :
        DetSubmitProfile(b, c, n, t, keep)
  \/ \E n \in 1..Len(week_plan) : DetToggle(n)
  \/ DetReviewWeek
  \/ \E n \in SessionInputs, t \in TodayInputs : DetCreateNextWeek(n, t)
  \/ \E d \in TestDateInputs, w \in TestWeightInputs : DetRegisterMaxTest(d, w)

Spec == Init /\ [][Next]_vars

\* =================================================================== claims
\* FINAL_s.py: a step that leaves the current week: the next-week
\* configuration is opened, the week index advances, or a restart is taken
C1_FinalLeavesWeek ==
  /\ app = "FINAL"
  /\ \/ ~next_week_config_pending /\ next_week_config_pending'
     \/ current_week' > current_week
     \/ current_week' = 0 /\ current_week # 0

\* FINAL_s.py: every item of the week being left has a Record and every day
\* of it is reviewed (after a restart the week being left is week 4)
C1_FinalWeekDone ==
  LET w == IF current_week = 0 THEN MAX_TEST_WEEK ELSE current_week
  IN  /\ w \in 1..Len(weekly_plan)
      /\ \A i \in 1..Len(weekly_plan[w]) :
           /\ <<w, weekly_plan[w][i].day>> \in day_review_done
           /\ \A k \in 1..Len(weekly_plan[w][i].menu) :
                <<w, weekly_plan[w][i].day, weekly_plan[w][i].menu[k].name>>
                  \in DOMAIN records

\* コード更新版_s.py: a step that advances the week index
C1_DetLeavesWeek == app = "UPDATED" /\ current_week_index' > current_week_index

\* コード更新版_s.py: every item of the week's menu is ticked
C1_DetWeekDone ==
  \A n \in 1..Len(week_plan) :
    week_plan[n].id \in DOMAIN workout_done /\ workout_done[week_plan[n].id]

\* C1 as stated: in either application the cycle leaves the current week
\* only when every item of the week is recorded (ticked) and, in FINAL_s.py,
\* every day reviewed.
C1_WeekLeftOnlyWhenDone ==
  [][/\ C1_FinalLeavesWeek => C1_FinalWeekDone
     /\ C1_DetLeavesWeek => C1_DetWeekDone]_vars

\* C1 amended: in FINAL_s.py the cycle leaves the current week only when
\* every item of every day of the week has a Record and every day is
\* reviewed; in コード更新版_s.py the week index advances whenever the week
\* summary is open, whatever the number of items ticked.
C1_FinalWeekLeftOnlyWhenDone ==
  [][/\ C1_FinalLeavesWeek => C1_FinalWeekDone
     /\ C1_DetLeavesWeek => show_week_summary]_vars

\* a restart has been taken out of a two-day week 4
C1_Witness ==
  /\ app = "FINAL"
  /\ current_week = 0
  /\ next_week_config_pending
  /\ Len(weekly_plan) = MAX_TEST_WEEK
  /\ Len(weekly_plan[MAX_TEST_WEEK]) = 2

\* the records of one (week, day)
DayRecords(recs, week, day) ==
  [x \in {y \in DOMAIN recs : y[1] = week /\ y[2] = day} |-> recs[x]]

\* the plan has a day plan for (week, day)
DayInPlan(week, day) ==
  /\ week \in 1..Len(weekly_plan)
  /\ \E i \in 1..Len(weekly_plan[week]) : weekly_plan[week][i].day = day

\* C2: in every reachable state, a (week, day) whose review flag is set
\* belongs to the stored plan and every item of its day plan has a Record.
C2_ReviewedDayHasAllRecords ==
  \A key \in day_review_done :
    /\ DayInPlan(key[1], key[2])
    /\ \A i \in 1..Len(weekly_plan[key[1]]) :
         weekly_plan[key[1]][i].day = key[2] =>
           \A k \in 1..Len(weekly_plan[key[1]][i].menu) :
             <<key[1], key[2], weekly_plan[key[1]][i].menu[k].name>> \in DOMAIN records

\* a reviewed day whose day plan has two items
C2_Witness ==
  \E key \in day_review_done :
    \E i \in 1..Len(weekly_plan[key[1]]) :
      /\ weekly_plan[key[1]][i].day = key[2]
      /\ Len(weekly_plan[key[1]][i].menu) = 2

\* C3: in every reachable state, every Record is stored under a (week, day,
\* exercise) that names an item of that day of that week's plan.
C3_RecordsOnlyForPlanItems ==
  \A key \in DOMAIN records :
    /\ key[1] \in 1..Len(weekly_plan)
    /\ \E i \in 1..Len(weekly_plan[key[1]]) :
         /\ weekly_plan[key[1]][i].day = key[2]
         /\ \E k \in 1..Len(weekly_plan[key[1]][i].menu) :
              weekly_plan[key[1]][i].menu[k].name = key[3]

\* records of two weeks are stored, the plan of the later week has two days
C3_Witness ==
  /\ \E a, b \in DOMAIN records : a[1] # b[1]
  /\ \E key \in DOMAIN records : key[2] = "Tue"

\* C4: while the review flag of a (week, day) stands, no step changes the
\* Records of that day: none is added, replaced or removed.
C4_ReviewedDayRecordsFrozen ==
  [][\A key \in day_review_done \cap day_review_done' :
        DayRecords(records', key[1], key[2]) = DayRecords(records, key[1], key[2])]_vars

\* one day of the week is reviewed while another day still takes records
C4_Witness ==
  /\ TrainingPageOpen
  /\ \E i, j \in 1..Len(CurrentPlan) :
       /\ is_day_reviewed(day_review_done, current_week, CurrentPlan[i].day)
       /\ ~is_day_reviewed(day_review_done, current_week, CurrentPlan[j].day)
       /\ HasRecord(records, current_week, CurrentPlan[j].day, CurrentPlan[j].menu[1].name)

\* C5: while the review flag of a (week, day) stands, the stored review text
\* of that day is not replaced: a second review of the day changes nothing.
C5_ReviewTextKept ==
  [][\A key \in day_review_done :
        key \in day_review_done' =>
          /\ key \in DOMAIN last_review'
          /\ last_review'[key] = last_review[key]]_vars

\* a reviewed day holding the fallback text, on a page that is still open and
\* could ask the service again
C5_Witness ==
  /\ TrainingPageOpen
  /\ \E key \in day_review_done :
       /\ key[1] = current_week
       /\ last_review[key] = "review failed"
       /\ check_all_records_saved_for_day(current_week, key[2], CurrentPlan, records)

\* the recorded weights of the is_max items of the plan of week 4
C6_MaxTestWeights ==
  LET its == PlanItems(weekly_plan[MAX_TEST_WEEK])
  IN  {records[<<MAX_TEST_WEEK, its[i].day, its[i].item.name>>].weight :
         i \in {j \in 1..Len(its) : its[j].item.is_max}}

\* week 4 is shown, fully recorded and fully reviewed, and has a max-test item
C6_Week4Completed ==
  /\ TrainingPageOpen
  /\ current_week = MAX_TEST_WEEK
  /\ \A i \in 1..Len(PlanItems(CurrentPlan)) :
       <<current_week, PlanItems(CurrentPlan)[i].day,
         PlanItems(CurrentPlan)[i].item.name>> \in DOMAIN records
  /\ \A i \in 1..Len(CurrentPlan) : <<current_week, CurrentPlan[i].day>> \in day_review_done
  /\ \E i \in 1..Len(PlanItems(CurrentPlan)) : PlanItems(CurrentPlan)[i].item.is_max

\* C6: the two goal flags are never both set; when week 4 is completed with
\* a max-test Record, the benchmark is the weight of a max-test Record (of
\* the one, when there is one), goal_achieved_pending holds exactly when the
\* benchmark is >= goal_bp and max_registered_not_achieved exactly when it is
\* below.
C6_BenchmarkAndFlags ==
  /\ ~(goal_achieved_pending /\ max_registered_not_achieved)
  /\ C6_Week4Completed =>
       /\ max_test_result \in C6_MaxTestWeights
       /\ goal_achieved_pending = (max_test_result >= initial_info.goal_bp)
       /\ max_registered_not_achieved = (max_test_result < initial_info.goal_bp)

\* week 4 completed with a max-test weight equal to the goal
C6_Witness ==
  /\ C6_Week4Completed
  /\ max_test_result = initial_info.goal_bp
  /\ goal_achieved_pending

\* the last is_max item of the week-4 plan in plan order, as <<day, name>>
C7_LastMaxItem ==
  LET its == PlanItems(weekly_plan[MAX_TEST_WEEK])
      pos == {j \in 1..Len(its) : its[j].item.is_max}
      last == CHOOSE i \in pos : \A j \in pos : j <= i
  IN  <<its[last].day, its[last].item.name>>

C7_LastMaxRecordWeight ==
  records[<<MAX_TEST_WEEK, C7_LastMaxItem[1], C7_LastMaxItem[2]>>].weight

\* week 4 is shown and fully recorded and has a max-test item: the redraw
\* has derived the benchmark and the flags
C7_Derived ==
  /\ TrainingPageOpen
  /\ current_week = MAX_TEST_WEEK
  /\ \A i \in 1..Len(PlanItems(CurrentPlan)) :
       <<current_week, PlanItems(CurrentPlan)[i].day,
         PlanItems(CurrentPlan)[i].item.name>> \in DOMAIN records
  /\ \E i \in 1..Len(PlanItems(CurrentPlan)) : PlanItems(CurrentPlan)[i].item.is_max

C8_SaveRoundTrip ==
  [][\A i \in 1..2, k \in 1..2, inp \in RecordInputs(current_week) :
        SaveRecord(i, k, inp) =>
          LET item == CurrentPlan[i].menu[k]
              rec == records'[<<current_week, CurrentPlan[i].day, item.name>>]
              forced == current_week = 4 /\ item.is_max
          IN  /\ rec.weight = inp.weight
              /\ rec.note = inp.note
              /\ rec.reps = (IF forced THEN 1 ELSE inp.reps)
              /\ rec.sets = (IF forced THEN 1 ELSE inp.sets)
              /\ rec.is_max = item.is_max]_vars

\* a week-4 max-test Record entered with reps 3 / sets 2 and stored with 1 / 1
\* next to an is_max Record of week 3 that kept the entered reps and sets
C8_Witness ==
  /\ \E key \in DOMAIN records :
       /\ key[1] = 4 /\ records[key].is_max /\ records[key].note = "pr"
       /\ records[key].reps = 1 /\ records[key].sets = 1 /\ records[key].weight = 100
  /\ \E key \in DOMAIN records :
       /\ key[1] = 3 /\ records[key].is_max /\ records[key].reps = 5
       /\ records[key].sets = 3

\* what a save leaves alone apart from the benchmark and the flags
C9_SaveFrame(i, k) ==
  LET key == <<current_week, CurrentPlan[i].day, CurrentPlan[i].menu[k].name>>
  IN  /\ DOMAIN records' = DOMAIN records \cup {key}
      /\ \A x \in DOMAIN records \ {key} : records'[x] = records[x]
      /\ UNCHANGED <<current_week, weekly_plan, day_review_done, last_review,
                     initial_info, next_week_config_pending, training_started>>

\* C9 as stated: a save upserts one Record and changes nothing else, the
\* benchmark and the goal flags included.
C9_SaveOnlyUpserts ==
  [][\A i \in 1..2, k \in 1..2, inp \in RecordInputs(current_week) :
        SaveRecord(i, k, inp) =>
          /\ C9_SaveFrame(i, k)
          /\ UNCHANGED <<max_test_result, goal_achieved_pending,
                         max_registered_not_achieved>>]_vars

\* C9 amended: a save upserts one Record and leaves every other Record, the
\* week index, the plan, the review state, the stored configuration and the
\* started / pending flags unchanged; the benchmark and the goal flags are
\* unchanged too unless the save leaves week 4 fully recorded with a
\* max-test item, in which case the redraw after the save sets the benchmark
\* to the weight of the last max-test Record and the flags by comparing it
\* with goal_bp.
C9_SaveUpsertsAndMayDerive ==
  [][\A i \in 1..2, k \in 1..2, inp \in RecordInputs(current_week) :
        SaveRecord(i, k, inp) =>
          /\ C9_SaveFrame(i, k)
          /\ \/ UNCHANGED <<max_test_result, goal_achieved_pending,
                            max_registered_not_achieved>>
             \/ /\ C7_Derived'
                /\ max_test_result' = C7_LastMaxRecordWeight'
                /\ goal_achieved_pending' = (max_test_result' >= initial_info.goal_bp)
                /\ max_registered_not_achieved' = ~goal_achieved_pending']_vars

\* a day holding two Records while week 4 has just been fully recorded and
\* the benchmark follows the max-test Record, before any review
C9_Witness ==
  /\ C7_Derived
  /\ day_review_done = {}
  /\ max_test_result = C7_LastMaxRecordWeight
  /\ \E a, b \in DOMAIN records : a[1] = 4 /\ b[1] = 4 /\ a[2] = b[2] /\ a[3] # b[3]

\* C10: a next-week configuration whose weekday list and session count
\* differ is rejected with nothing written: week index, plans, records,
\* review state, stored configuration, pending flag, benchmark and goal
\* flags are as before.
C10_MismatchChangesNothing ==
  [][\A f \in FreqInputs, wd \in NonEmptyDaySets, kind \in {"error", "reply"},
        p \in {<<>>} \cup PlanReplies(1) \cup PlanReplies(3) \cup PlanReplies(4) :
        (Cardinality(wd) # f
           /\ SubmitNextWeekConfig(f, wd, [kind |-> kind, weekly_plan |-> p]))
        => UNCHANGED <<initial_info, weekly_plan, records, current_week,
                       training_started, max_test_result, goal_achieved_pending,
                       max_registered_not_achieved, day_review_done,
                       last_review, next_week_config_pending>>]_vars

\* the configuration form has just rejected a mismatch
C10_Witness ==
  /\ notice = "frequency mismatch"
  /\ next_week_config_pending
  /\ current_week \in 1..3

\* every outcome a plan request can have, whatever the week asked for
PlanOutcomes == UNION {AiPlanOutcomes(w) : w \in 1..MAX_TEST_WEEK}

\* the plan request fails: no client, the call raises (which includes a
\* reply that does not parse), or the reply holds no plan
PlanFails(outcome) ==
  ~client \/ outcome.kind = "error" \/ outcome.weekly_plan = <<>>

\* C11: a next-week configuration whose plan request fails changes nothing:
\* week index, plan list, records, review state, pending flag and the stored
\* configuration (freq and weekdays of initial_info) are as before.
C11_FailedConfigChangesNothing ==
  [][\A f \in FreqInputs, wd \in NonEmptyDaySets, o \in PlanOutcomes :
        (Cardinality(wd) = f /\ PlanFails(o) /\ SubmitNextWeekConfig(f, wd, o))
        => UNCHANGED <<initial_info, weekly_plan, records, current_week,
                       day_review_done, last_review,
                       next_week_config_pending>>]_vars

\* C12: a profile submission whose plan request fails leaves all prior state
\* unchanged: profile, initial_info, max_test_result, protein goal and
\* counter, training log, plan list and records.
C12_FailedSubmissionChangesNothing ==
  [][\A b \in BodyInputs, c \in ProfileInputs, wd \in NonEmptyDaySets,
        t \in TodayInputs, o \in PlanOutcomes :
        (PlanFails(o) /\ SubmitProfile(b, c, wd, t, o))
        => UNCHANGED <<profile, initial_info, max_test_result, protein_goal,
                       protein_today, training_logs, weekly_plan,
                       records>>]_vars

\* C13: whenever the plan request fails, at the profile submission or at the
\* next-week configuration, no plan is stored: the plan list and the records
\* are exactly as before.
C13_FailedGenerationKeepsPlans ==
  [][/\ \A b \in BodyInputs, c \in ProfileInputs, wd \in NonEmptyDaySets,
           t \in TodayInputs, o \in PlanOutcomes :
           (PlanFails(o) /\ SubmitProfile(b, c, wd, t, o))
           => UNCHANGED <<weekly_plan, records>>
     /\ \A f \in FreqInputs, wd \in NonEmptyDaySets, o \in PlanOutcomes :
           (PlanFails(o) /\ SubmitNextWeekConfig(f, wd, o))
           => UNCHANGED <<weekly_plan, records>>]_vars

\* a plan request has just failed while a plan and records were stored
C13_Witness ==
  /\ notice = "plan failed"
  /\ weekly_plan # <<>>
  /\ records # <<>>

\* C14: a stored week-4 plan has exactly one item with is_max (a week-4 reply
\* with no or several MAX-test items is refused like a failed request)
C14_Week4PlanHasOneMax ==
  (current_week = MAX_TEST_WEEK /\ Len(weekly_plan) >= MAX_TEST_WEEK)
  => Cardinality(MaxPositions(MAX_TEST_WEEK, weekly_plan[MAX_TEST_WEEK])) = 1

\* C15: a completed week always offers a way on: in every state in which
\* the page shows a fully recorded and fully reviewed week, the next-week
\* configuration (weeks 1-3) or one of the two restarts (week 4) is offered.
C15_CompletedWeekHasExit ==
  (TrainingPageOpen
     /\ week_complete(current_week, CurrentPlan, records, day_review_done))
  => \/ current_week < MAX_TEST_WEEK
     \/ /\ current_week = MAX_TEST_WEEK
        /\ goal_achieved_pending \/ max_registered_not_achieved

\* C16: a restart leaves the training log alone and sets goal_bp to the new
\* goal (goal achieved) or keeps it (goal missed); the accepted plan that
\* follows starts the new cycle at week 1 with no records, no review state,
\* both goal flags false and training not started, the log and goal_bp
\* being what they were.
C16_RestartStartsCleanCycle ==
  [][/\ \A g \in NewGoals :
           RestartWithNewGoal(g)
           => /\ initial_info'.goal_bp = g
              /\ training_logs' = training_logs
     /\ RestartWithSameGoal
           => /\ initial_info'.goal_bp = initial_info.goal_bp
              /\ training_logs' = training_logs
     /\ \A f \in FreqInputs, wd \in NonEmptyDaySets, o \in PlanOutcomes :
           (current_week = 0 /\ Cardinality(wd) = f /\ ~PlanFails(o)
              /\ SubmitNextWeekConfig(f, wd, o))
           => /\ current_week' = 1
              /\ Len(weekly_plan') = 1
              /\ records' = <<>>
              /\ day_review_done' = {}
              /\ last_review' = <<>>
              /\ ~goal_achieved_pending'
              /\ ~max_registered_not_achieved'
              /\ ~training_started'
              /\ training_logs' = training_logs
              /\ initial_info'.goal_bp = initial_info.goal_bp]_vars

\* a new cycle has just been generated after the goal was raised
C16_Witness ==
  /\ notice = "plan created"
  /\ current_week = 1
  /\ initial_info.set
  /\ initial_info.goal_bp > TARGET_1RM
  /\ records = <<>>
  /\ training_logs # <<>>

\* C17: the training log is append-only: in every step the log before the
\* step is a prefix of the log after it.
C17_LogAppendOnly ==
  [][/\ Len(training_logs') >= Len(training_logs)
     /\ SubSeq(training_logs', 1, Len(training_logs)) = training_logs]_vars

\* a MAX test has been logged after the initial entry
C17_Witness ==
  /\ Len(training_logs) >= 2
  /\ training_logs[1].note = "initial"
  /\ training_logs[2].note = "max test"

\* the step is a profile submission of FINAL_s.py
C18_NewProfile ==
  \E b \in BodyInputs, c \in ProfileInputs, wd \in NonEmptyDaySets,
     t \in TodayInputs, o \in PlanOutcomes : SubmitProfile(b, c, wd, t, o)

\* the step is the configuration submitted after a cycle restart
C18_NewCycle ==
  /\ current_week = 0
  /\ \E f \in FreqInputs, wd \in NonEmptyDaySets, o \in PlanOutcomes :
        SubmitNextWeekConfig(f, wd, o)

\* C18 as stated: no step other than a profile submission removes a Record.
C18_RecordsRemovedOnlyByNewProfile ==
  [][~C18_NewProfile => DOMAIN records \subseteq DOMAIN records']_vars

\* C18 amended: no step other than a profile submission or the plan
\* generation that starts a new cycle after a restart removes a Record; the
\* next-week configuration inside a cycle and the restart buttons keep all
\* of them.
C18_RecordsRemovedOnlyByNewProfileOrCycle ==
  [][~(C18_NewProfile \/ C18_NewCycle)
        => DOMAIN records \subseteq DOMAIN records']_vars

\* week 2 has just been generated and the week-1 record is still there
C18_Witness ==
  /\ notice = "plan created"
  /\ current_week = 2
  /\ \E k \in DOMAIN records : k[1] = 1

\* the step is a profile submission of either application
C19_ProfileCreated ==
  \/ C18_NewProfile
  \/ \E b \in BodyInputs, c \in DetProfileInputs, n \in SessionInputs,
        t \in TodayInputs, keep \in BOOLEAN : DetSubmitProfile(b, c, n, t, keep)

\* the fields of the profile that are fixed at its creation
C19_CreationFields(prof) ==
  <<prof.height, prof.weight, prof.target_weeks, prof.target_date, prof.start_date>>

\* C19 as stated: after its creation, no step changes a field of the
\* profile other than current_1rm.
C19_OnlyCurrent1rmChanges ==
  [][(profile.set /\ ~C19_ProfileCreated)
        => /\ C19_CreationFields(profile') = C19_CreationFields(profile)
           /\ profile'.sessions_per_week = profile.sessions_per_week]_vars

\* C19 amended: after its creation, height, weight, target_weeks,
\* target_date and start_date keep their values; sessions_per_week changes
\* only when コード更新版_s.py creates the next week's menu, never in
\* FINAL_s.py.
C19_CreationFieldsKept ==
  [][(profile.set /\ ~C19_ProfileCreated)
        => /\ C19_CreationFields(profile') = C19_CreationFields(profile)
           /\ profile'.sessions_per_week # profile.sessions_per_week
                => /\ app = "UPDATED"
                   /\ current_week_index' = current_week_index + 1]_vars

\* a MAX test has changed current_1rm of a profile created with 70 kg
C19_Witness ==
  /\ profile.set
  /\ profile.current_1rm = 8000
  /\ profile.target_weeks = estimate_weeks_to_target(70, 1, profile.sessions_per_week)

\* the weekly gain of the claim in hundredths of a kg:
\* max(0.3, 0.6 + (sessions_per_week - 3) * 0.15)
C20_WeeklyGain(sessions_per_week) ==
  IF 60 + (sessions_per_week - 3) * 15 > 30
  THEN 60 + (sessions_per_week - 3) * 15 ELSE 30

\* max(1, ceil((100 - current) / gain)) for current = est_current / EstimateUnit
C20_CeilWeeks ==
  LET a == 100 * (100 * EstimateUnit - est_current)
      b == C20_WeeklyGain(est_sessions) * EstimateUnit
      c == (a + b - 1) \div b
  IN  IF c > 1 THEN c ELSE 1

\* C20: estimate_weeks_to_target returns 0 for current >= 100 and otherwise
\* max(1, ceil((100 - current) / max(0.3, 0.6 + (sessions - 3) * 0.15))).
C20_EstimateIsCeiling ==
  est_weeks # -1
  => est_weeks = IF est_current >= 100 * EstimateUnit THEN 0 ELSE C20_CeilWeeks

\* C21: the ideal-pace curve has one point per calendar day from start_date
\* to target_date inclusive, target_date being start_date + 1 day when it was
\* not after start_date, so there are at least two points; its first value is
\* the start value, its last value the target value, and the values strictly
\* increase when the target value exceeds the start value.
C21_Start == IF curve_in.dates_ok THEN curve_in.start_date ELSE curve_in.log_date

C21_Target ==
  LET t == IF curve_in.dates_ok THEN curve_in.target_date
           ELSE C21_Start + 7 * curve_in.target_weeks
  IN  IF t <= C21_Start THEN C21_Start + 1 ELSE t

C21_IdealPaceCurve ==
  curve_out # NoCurve =>
    LET dates == curve_out.dates
        values == curve_out.values
        last == Len(values)
    IN  /\ Len(dates) = C21_Target - C21_Start + 1
        /\ Len(values) = Len(dates)
        /\ Len(dates) >= 2
        /\ \A n \in 1..Len(dates) : dates[n] = C21_Start + (n - 1)
        /\ values[1][2] > 0
        /\ values[1][1] = curve_in.initial_1rm * values[1][2]
        /\ values[last][1] = TARGET_1RM * 10 * values[last][2]
        /\ TARGET_1RM * 10 > curve_in.initial_1rm =>
              \A n \in 1..(last - 1) :
                 values[n][1] * values[n + 1][2] < values[n + 1][1] * values[n][2]

\* a curve drawn for a target date before the start date and a start value
\* below the target
C21_Witness ==
  /\ curve_out # NoCurve
  /\ curve_in.dates_ok
  /\ curve_in.target_date < curve_in.start_date
  /\ curve_in.initial_1rm = 705
  /\ Len(curve_out.values) = 2

\* w is a nearest integer to pct percent of b, where b is the current_1rm of
\* gp_in (hundredths of a kg) times 1 + 0.02 * week_index
C22_RoundOf(w, pct) ==
  LET scaled == gp_in.current_1rm * (100 + 2 * gp_in.week_index) * pct
      diff == w * 1000000 - scaled
  IN  /\ 2 * diff <= 1000000
      /\ 2 * diff >= -1000000

\* plan holds, for each of the sessions, the same ten exercises in the same
\* order with the same weights, the three bench weights being 80, 70 and 60
\* percent of b
C22_Catalogue(plan) ==
  LET sessions == gp_in.sessions_per_week
      size == Len(plan) \div sessions
      at(session, slot) == plan[(session - 1) * size + slot]
  IN  /\ Len(plan) = sessions * size
      /\ size = 10
      /\ \A slot \in 1..size : \A other \in 1..size :
            slot # other => at(1, slot).id[3] # at(1, other).id[3]
      /\ \A session \in 1..sessions : \A slot \in 1..size :
            /\ at(session, slot).id = <<gp_in.week_index, session, at(1, slot).id[3]>>
            /\ at(session, slot).session_label = <<gp_in.week_index + 1, session>>
            /\ at(session, slot).weight = at(1, slot).weight
      /\ at(1, 1).id[3] = "bench_main" /\ C22_RoundOf(at(1, 1).weight, 80)
      /\ at(1, 2).id[3] = "bench_vol" /\ C22_RoundOf(at(1, 2).weight, 70)
      /\ at(1, 3).id[3] = "bench_tech" /\ C22_RoundOf(at(1, 3).weight, 60)

\* C22: generate_week_plan is pure and total: for sessions_per_week in 1..7
\* and week_index >= 0 a call returns a plan with the same fixed catalogue of
\* exercises for each session, whose main / volume / technique bench weights
\* are round(0.8 * b), round(0.7 * b), round(0.6 * b) with
\* b = current_1rm * (1 + 0.02 * week_index), and the call changes no session
\* state.
C22_PlanIsPureAndTotal ==
  [][gp_out' # gp_out =>
       /\ C22_Catalogue(gp_out')
       /\ UNCHANGED <<app, client, sharedVars, detVars, finalVars>>]_vars

\* a plan of seven sessions returned for week index 4
C22_Witness ==
  /\ gp_out # <<>>
  /\ gp_in.sessions_per_week = 7
  /\ gp_in.week_index = 4
  /\ gp_in.current_1rm = 7165
  /\ Len(gp_out) = 70
  /\ gp_out[1].weight = 62

\* C23: the review text stored for a day is never empty: a non-empty reply
\* of the collaborator is used as it is, and an empty reply or a failed call
\* is replaced by a canned fallback string.
C23_ReviewTextNeverEmpty ==
  \A key \in DOMAIN last_review : last_review[key] # ""

\* the plan of the current week exists, training has started and the week
\* is the one on the page, with or without a client
C24_WeekWithPlan ==
  /\ app = "FINAL"
  /\ initial_info.set
  /\ ~next_week_config_pending
  /\ training_started
  /\ current_week >= 1
  /\ current_week <= Len(weekly_plan)

\* C24: without the text-generation collaborator (no credentials) the
\* operations that have a deterministic fallback still work on a week whose
\* plan exists: a record of a day not yet reviewed can be saved, and a day
\* with all its records can be reviewed, the review being stored with the
\* canned fallback text and the day marked as reviewed.
C24_WorksWithoutClient ==
  (C24_WeekWithPlan /\ ~client) =>
    \A i \in 1..Len(weekly_plan[current_week]) :
      LET day == weekly_plan[current_week][i].day
          reviewed == is_day_reviewed(day_review_done, current_week, day)
      IN  /\ ~reviewed =>
               ENABLED (\E k \in 1..2, inp \in RecordInputs(current_week) :
                           SaveRecord(i, k, inp))
          /\ (/\ ~reviewed
              /\ check_all_records_saved_for_day(current_week, day,
                                                 weekly_plan[current_week], records))
               => ENABLED (\E o \in AiReviewOutcomes(current_week) :
                             /\ FinishDay(i, o)
                             /\ last_review'[<<current_week, day>>] = "review unavailable"
                             /\ <<current_week, day>> \in day_review_done')

\* C26: in every reachable state of FINAL_s.py current_week is in 0..4, and
\* current_week = 0, the cycle-restart value, holds only while
\* next_week_config_pending is true.
C26_WeekInRange ==
  app = "FINAL" =>
    /\ current_week \in 0..MAX_TEST_WEEK
    /\ current_week = 0 => next_week_config_pending

\* week 4 has been completed and a cycle restart has been chosen
C26_Witness ==
  /\ app = "FINAL"
  /\ current_week = 0
  /\ next_week_config_pending
  /\ Len(weekly_plan) = MAX_TEST_WEEK

\* C27: whenever the stored plan list is not empty and current_week >= 1, the
\* list has exactly current_week entries, so weekly_plan[current_week - 1] is
\* in bounds after any successful generation; a cycle restart replaces the
\* list by the single new week-1 plan.
C27_OnePlanPerWeek ==
  (app = "FINAL" /\ weekly_plan # <<>> /\ current_week >= 1) =>
     Len(weekly_plan) = current_week

\* the first plan of a second cycle has replaced the four plans of the first
C27_Witness ==
  /\ app = "FINAL"
  /\ current_week = 1
  /\ Len(weekly_plan) = 1
  /\ initial_info.set
  /\ initial_info.goal_bp > TARGET_1RM

\* the positions of the is_max items of the week-4 plan, in the order days
\* and menu items are listed
C28_MaxTestPositions ==
  {j \in 1..Len(PlanItems(weekly_plan[MAX_TEST_WEEK])) :
     PlanItems(weekly_plan[MAX_TEST_WEEK])[j].item.is_max}

\* the recorded weight of the item at position j of the week-4 plan
C28_WeightAt(j) ==
  LET it == PlanItems(weekly_plan[MAX_TEST_WEEK])[j]
  IN  records[<<MAX_TEST_WEEK, it.day, it.item.name>>].weight

\* C28: when the week-4 plan has more than one is_max item, the benchmark
\* derived once the week is fully recorded is the recorded weight of the last
\* such item in plan order, whether or not it is the greatest of the recorded
\* max-test weights.
C28_LastOfSeveralMaxItems ==
  (C7_Derived /\ Cardinality(C28_MaxTestPositions) > 1) =>
     \E last \in C28_MaxTestPositions :
        /\ \A j \in C28_MaxTestPositions : j <= last
        /\ max_test_result = C28_WeightAt(last)

\* two max-test items recorded, the first with the greater weight, and the
\* benchmark is the smaller weight of the second
C28_Witness ==
  /\ C7_Derived
  /\ Cardinality(C28_MaxTestPositions) > 1
  /\ \E first \in C28_MaxTestPositions, last \in C28_MaxTestPositions :
        /\ first < last
        /\ C28_WeightAt(first) > C28_WeightAt(last)
        /\ max_test_result = C28_WeightAt(last)
        /\ max_test_result < C28_WeightAt(first)

\* the step registers a MAX test of test_1rm kg dated test_date, in either
\* application
C29_Registers(test_date, test_1rm) ==
  \/ RegisterMaxTest(test_date, test_1rm)
  \/ DetRegisterMaxTest(test_date, test_1rm)

\* C29: registering a standalone MAX test with a positive weight sets
\* profile.current_1rm to that weight and appends exactly one TrainingLog
\* entry dated with the test date and carrying that weight; it leaves the
\* training-cycle state untouched (benchmark, current week, plans, records,
\* review flags and texts, goal flags, and the week state of the
\* formula-driven application); a weight <= 0 changes neither the profile nor
\* the log.
C29_MaxTestFrame ==
  [][\A test_date \in TestDateInputs, test_1rm \in TestWeightInputs :
       C29_Registers(test_date, test_1rm) =>
         /\ test_1rm > 0 =>
              /\ profile' = [profile EXCEPT !.current_1rm = test_1rm * 100]
              /\ Len(training_logs') = Len(training_logs) + 1
              /\ SubSeq(training_logs', 1, Len(training_logs)) = training_logs
              /\ training_logs'[Len(training_logs')].date = test_date
              /\ training_logs'[Len(training_logs')].current_1rm = test_1rm * 100
         /\ test_1rm <= 0 => UNCHANGED <<profile, training_logs>>
         /\ UNCHANGED <<max_test_result, current_week, weekly_plan, records,
                        day_review_done, last_review, goal_achieved_pending,
                        max_registered_not_achieved, training_started,
                        next_week_config_pending, initial_info>>
         /\ UNCHANGED <<detVars, protein_goal, protein_today>>]_vars

\* a MAX test of 80 kg registered for day 1 while week 1 has a record and the
\* benchmark still is the 70 kg of the profile form
C29_Witness ==
  /\ app = "FINAL"
  /\ profile.set
  /\ profile.current_1rm = 8000
  /\ training_logs # <<>>
  /\ training_logs[Len(training_logs)].note = "max test"
  /\ training_logs[Len(training_logs)].date = 1
  /\ max_test_result = 70
  /\ records # <<>>

\* the step is the "create next week's menu" button
C30_CreatesNextWeek ==
  \E n \in SessionInputs, t \in TodayInputs : DetCreateNextWeek(n, t)

\* the step is a profile submission of コード更新版_s.py
C30_SubmitsProfile ==
  \E b \in BodyInputs, c \in DetProfileInputs, n \in SessionInputs,
     t \in TodayInputs, keep \in BOOLEAN : DetSubmitProfile(b, c, n, t, keep)

\* new (hundredths of a kg) is a whole number of tenths nearest to
\* current * (1 + 0.02 * success_rate), success_rate being the share of the
\* items of the week plan that are ticked
C30_RoundedGrowth(current, new) ==
  LET total == Len(week_plan)
      ticked == Cardinality({n \in 1..total : workout_done[week_plan[n].id]})
      diff == new * 50 * total - current * (50 * total + ticked)
  IN  /\ new % 10 = 0
      /\ diff <= 5 * 50 * total
      /\ diff >= -(5 * 50 * total)

\* what the button does apart from the direction in which current_1rm moves
C30_Advance ==
  /\ current_week_index' = current_week_index + 1
  /\ C30_RoundedGrowth(profile.current_1rm, profile'.current_1rm)
  /\ week_plan' # week_plan
  /\ week_plan' # <<>>
  /\ \A n \in 1..Len(week_plan') : week_plan'[n].id[1] = current_week_index'
  /\ DOMAIN workout_done' = {week_plan'[n].id : n \in 1..Len(week_plan')}
  /\ \A id \in DOMAIN workout_done' : ~workout_done'[id]
  /\ ~show_week_summary'
  /\ ~celebrated_this_week'
  /\ Len(training_logs') = Len(training_logs) + 1
  /\ SubSeq(training_logs', 1, Len(training_logs)) = training_logs
  /\ training_logs'[Len(training_logs')].week_index = current_week_index'
  /\ training_logs'[Len(training_logs')].current_1rm = profile'.current_1rm

====
